---- MODULE Spec2Model ----
(***************************************************************************)
(* Model of src/src/lib/hotwire-middleware.ts: the express-hotwire         *)
(* middleware, the turboStream capability object it attaches to a          *)
(* response, and the asynchronous action handlers (append, prepend,        *)
(* replace, update, remove) that render a partial and send a turbo-stream  *)
(* envelope.                                                               *)
(*                                                                         *)
(* JavaScript values are encoded as follows.                               *)
(*   - A value of type T | undefined is a sequence: << >> is undefined and *)
(*     <<v>> is the value v.  So options is << >> (argument omitted) or    *)
(*     <<[partial |-> ..., locals |-> ...]>>, and options.partial is << >> *)
(*     (undefined), <<"">> (the empty string) or <<"messages/show">>.      *)
(*     The header value passed to setHeader is an array of one string,     *)
(*     the sequence <<ContentType>>; header[r] is << >> or <<that array>>. *)
(*   - Strings are TLA+ strings; the template literal of stream() is       *)
(*     string concatenation.                                               *)
(*   - The event loop is a FIFO queue of promise continuations (jobs).     *)
(*     The synchronous part of a handler is one step; each continuation    *)
(*     that resumes after an await is one step, taken from the head of the *)
(*     queue.  The view renderer is external: it calls its callback back   *)
(*     at a time of its choosing, with an HTML string or with an error.    *)
(*     Middleware and Invoke are calls made by the surrounding application *)
(*     (the pipeline, a route handler, one of its own continuations); they *)
(*     can happen while continuations of earlier invocations are queued.   *)
(*   - inv[i].events is the order in which invocation i performed its      *)
(*     calls (setHeader, render, send) and saw the renderer call back;     *)
(*     pipeline[r] is the order of the middleware's steps on response r.   *)
(*                                                                         *)
(* Spec is the model of concurrent requests (several responses, several    *)
(* invocations in flight, two representative calls).  SpecCall is the      *)
(* model of the calls on one response with every action, target and        *)
(* options shape as input.                                                 *)
(***************************************************************************)
EXTENDS Integers, Sequences, FiniteSets, TLC

(* ------------------------------ bounds -------------------------------- *)

NumResponses == 2
MaxInstalls == 2
MaxInvocations == 2
MaxCalls == 1

Responses == 1..NumResponses
Invocations == 1..MaxInvocations
Calls == 1..MaxCalls
CallResponses == {r \in Responses : \A q \in Responses : r <= q}

(* ------------------------------ inputs -------------------------------- *)

Targets == {"messages", "a\"b"}
MessageLocals == "{message:{id:1,content:'My new message'}}"
OptionsInputs ==
  { << >>,
    <<[partial |-> << >>, locals |-> << >>]>>,
    <<[partial |-> <<"">>, locals |-> << >>]>>,
    <<[partial |-> <<"messages/show">>, locals |-> << >>]>>,
    <<[partial |-> <<"messages/show">>, locals |-> <<MessageLocals>>]>> }
ConcurrentInputs ==
  { <<"append", "messages", << >> >>,
    <<"replace", "a\"b", <<[partial |-> <<"messages/show">>, locals |-> <<MessageLocals>>]>> >> }
Htmls == {"<p id=\"1\">My new message & more</p>"}
Errors == {"Error: Failed to lookup view"}
RenderOutcomes ==
  {[ok |-> TRUE, val |-> h] : h \in Htmls} \cup {[ok |-> FALSE, val |-> e] : e \in Errors}

(* --------------------------- pure functions --------------------------- *)

Actions == {"append", "prepend", "replace", "update", "remove"}

ContentType == "text/html; turbo-stream; charset=utf-8"

ContentTypeHeader == <<ContentType>>

OptPartial(options) == IF options = << >> THEN << >> ELSE options[1].partial

Truthy(v) == v # << >> /\ v[1] # ""

HasPartial_whenOptionsGiven(options) == options # << >>

HasPartial(options) == Truthy(OptPartial(options))

Envelope_noIndent(action, target, content) ==
  "<turbo-stream action=\"" \o action \o "\" target=\"" \o target
    \o "\"><template>" \o content \o "</template></turbo-stream>"

Envelope(action, target, content) ==
  "\n  <turbo-stream action=\"" \o action \o "\" target=\"" \o target
    \o "\">\n    <template>\n" \o content \o "\n    </template>\n  </turbo-stream>\n  "

RenderCall_noLocals(res, options) ==
  [on |-> res, partial |-> options[1].partial, locals |-> << >>]

RenderCall(res, options) ==
  [on |-> res, partial |-> options[1].partial, locals |-> options[1].locals]

MethodAction(method) == method

NewTurboStream_firstResponse(res, gen) == [res |-> 1, gen |-> gen]

NewTurboStream(res, gen) == [res |-> res, gen |-> gen]

MiddlewareSteps_nextFirst == <<"next", "attach">>

MiddlewareSteps == <<"attach", "next">>

(* ------------------------------- state -------------------------------- *)

VARIABLES turboStream, installs, pipeline, header, sent, inv, jobs

vars == <<turboStream, installs, pipeline, header, sent, inv, jobs>>

IdleInv ==
  [pc |-> "idle", via |-> 0, res |-> 0, method |-> "", action |-> "", target |-> "",
   options |-> << >>, events |-> << >>, renderCalls |-> << >>, outcome |-> << >>,
   streamResult |-> << >>, reason |-> << >>, resumes |-> 0]

Init ==
  /\ turboStream = [r \in Responses |-> << >>]
  /\ installs = [r \in Responses |-> 0]
  /\ pipeline = [r \in Responses |-> << >>]
  /\ header = [r \in Responses |-> << >>]
  /\ sent = [r \in Responses |-> << >>]
  /\ inv = [i \in Invocations |-> IdleInv]
  /\ jobs = << >>

(* ------------------------------ actions ------------------------------- *)

Middleware(r) ==
  /\ installs[r] < MaxInstalls
  /\ installs' = [installs EXCEPT ![r] = @ + 1]
  /\ turboStream' = [turboStream EXCEPT ![r] = <<NewTurboStream(r, installs[r] + 1)>>]
  /\ pipeline' = [pipeline EXCEPT ![r] = @ \o MiddlewareSteps]
  /\ UNCHANGED <<header, sent, inv, jobs>>

NextIdle == CHOOSE i \in Invocations : inv[i].pc = "idle" /\ \A j \in 1..(i - 1) : inv[j].pc # "idle"

Invoke_renderBeforeHeader(r, method, target, options) ==
  /\ turboStream[r] # << >>
  /\ \E i \in Invocations : inv[i].pc = "idle"
  /\ LET i == NextIdle
         res == turboStream[r][1].res
         action == MethodAction(method)
         started == [IdleInv EXCEPT !.via = r, !.res = res, !.method = method,
                                    !.action = action, !.target = target,
                                    !.options = options]
     IN /\ header' = [header EXCEPT ![res] = <<ContentTypeHeader>>]
        /\ IF HasPartial(options)
             THEN /\ inv' = [inv EXCEPT ![i] =
                       [started EXCEPT !.pc = "awaitRender",
                                       !.events = <<"render", "setHeader">>,
                                       !.renderCalls = <<RenderCall(res, options)>>]]
                  /\ jobs' = jobs
             ELSE /\ inv' = [inv EXCEPT ![i] =
                       [started EXCEPT !.pc = "handlerJob",
                                       !.events = <<"setHeader">>,
                                       !.streamResult =
                                          <<[ok |-> TRUE, val |-> Envelope(action, target, "")]>>]]
                  /\ jobs' = Append(jobs, i)
  /\ UNCHANGED <<turboStream, installs, pipeline, sent>>

Invoke_noHeader(r, method, target, options) ==
  /\ turboStream[r] # << >>
  /\ \E i \in Invocations : inv[i].pc = "idle"
  /\ LET i == NextIdle
         res == turboStream[r][1].res
         action == MethodAction(method)
         started == [IdleInv EXCEPT !.via = r, !.res = res, !.method = method,
                                    !.action = action, !.target = target,
                                    !.options = options]
     IN /\ header' = header
        /\ IF HasPartial(options)
             THEN /\ inv' = [inv EXCEPT ![i] =
                       [started EXCEPT !.pc = "awaitRender",
                                       !.events = <<"render">>,
                                       !.renderCalls = <<RenderCall(res, options)>>]]
                  /\ jobs' = jobs
             ELSE /\ inv' = [inv EXCEPT ![i] =
                       [started EXCEPT !.pc = "handlerJob",
                                       !.streamResult =
                                          <<[ok |-> TRUE, val |-> Envelope(action, target, "")]>>]]
                  /\ jobs' = Append(jobs, i)
  /\ UNCHANGED <<turboStream, installs, pipeline, sent>>

Invoke(r, method, target, options) ==
  /\ turboStream[r] # << >>
  /\ \E i \in Invocations : inv[i].pc = "idle"
  /\ LET i == NextIdle
         res == turboStream[r][1].res
         action == MethodAction(method)
         started == [IdleInv EXCEPT !.via = r, !.res = res, !.method = method,
                                    !.action = action, !.target = target,
                                    !.options = options]
     IN /\ header' = [header EXCEPT ![res] = <<ContentTypeHeader>>]
        /\ IF HasPartial(options)
             THEN /\ inv' = [inv EXCEPT ![i] =
                       [started EXCEPT !.pc = "awaitRender",
                                       !.events = <<"setHeader", "render">>,
                                       !.renderCalls = <<RenderCall(res, options)>>]]
                  /\ jobs' = jobs
             ELSE /\ inv' = [inv EXCEPT ![i] =
                       [started EXCEPT !.pc = "handlerJob",
                                       !.events = <<"setHeader">>,
                                       !.streamResult =
                                          <<[ok |-> TRUE, val |-> Envelope(action, target, "")]>>]]
                  /\ jobs' = Append(jobs, i)
  /\ UNCHANGED <<turboStream, installs, pipeline, sent>>

RenderCallback(i, outcome) ==
  /\ inv[i].pc = "awaitRender"
  /\ inv' = [inv EXCEPT ![i].pc = "streamJob",
                        ![i].outcome = <<outcome>>,
                        ![i].events = Append(@, IF outcome.ok THEN "renderResolved"
                                                              ELSE "renderRejected")]
  /\ jobs' = Append(jobs, i)
  /\ UNCHANGED <<turboStream, installs, pipeline, header, sent>>

StreamResume_emptyOnError(i) ==
  /\ jobs # << >> /\ Head(jobs) = i /\ inv[i].pc = "streamJob"
  /\ LET o == inv[i].outcome[1]
         content == IF o.ok THEN o.val ELSE ""
     IN inv' = [inv EXCEPT ![i].pc = "handlerJob",
                           ![i].resumes = @ + 1,
                           ![i].streamResult =
                              <<[ok |-> TRUE,
                                 val |-> Envelope(inv[i].action, inv[i].target, content)]>>]
  /\ jobs' = Append(Tail(jobs), i)
  /\ UNCHANGED <<turboStream, installs, pipeline, header, sent>>

StreamResume_sendsItself(i) ==
  /\ jobs # << >> /\ Head(jobs) = i /\ inv[i].pc = "streamJob"
  /\ LET o == inv[i].outcome[1]
     IN IF o.ok
          THEN /\ sent' = [sent EXCEPT ![inv[i].res] =
                     Append(@, [by |-> i,
                                body |-> Envelope(inv[i].action, inv[i].target, o.val)])]
               /\ inv' = [inv EXCEPT ![i].pc = "done", ![i].resumes = @ + 1,
                                     ![i].events = Append(@, "send")]
          ELSE /\ sent' = sent
               /\ inv' = [inv EXCEPT ![i].pc = "rejected", ![i].resumes = @ + 1,
                                     ![i].reason = <<o.val>>]
  /\ jobs' = Tail(jobs)
  /\ UNCHANGED <<turboStream, installs, pipeline, header>>

StreamResume(i) ==
  /\ jobs # << >> /\ Head(jobs) = i /\ inv[i].pc = "streamJob"
  /\ LET o == inv[i].outcome[1]
     IN inv' = [inv EXCEPT ![i].pc = "handlerJob",
                           ![i].resumes = @ + 1,
                           ![i].streamResult =
                              IF o.ok
                                THEN <<[ok |-> TRUE,
                                        val |-> Envelope(inv[i].action, inv[i].target, o.val)]>>
                                ELSE <<[ok |-> FALSE, val |-> o.val]>>]
  /\ jobs' = Append(Tail(jobs), i)
  /\ UNCHANGED <<turboStream, installs, pipeline, header, sent>>

HandlerResume(i) ==
  /\ jobs # << >> /\ Head(jobs) = i /\ inv[i].pc = "handlerJob"
  /\ LET s == inv[i].streamResult[1]
     IN IF s.ok
          THEN /\ sent' = [sent EXCEPT ![inv[i].res] = Append(@, [by |-> i, body |-> s.val])]
               /\ inv' = [inv EXCEPT ![i].pc = "done", ![i].resumes = @ + 1,
                                     ![i].events = Append(@, "send")]
          ELSE /\ sent' = sent
               /\ inv' = [inv EXCEPT ![i].pc = "rejected", ![i].resumes = @ + 1,
                                     ![i].reason = <<s.val>>]
  /\ jobs' = Tail(jobs)
  /\ UNCHANGED <<turboStream, installs, pipeline, header>>

Next ==
  \/ \E r \in Responses : Middleware(r)
  \/ \E r \in Responses, c \in ConcurrentInputs : Invoke(r, c[1], c[2], c[3])
  \/ \E i \in Invocations, oc \in RenderOutcomes : RenderCallback(i, oc)
  \/ \E i \in Invocations : StreamResume(i)
  \/ \E i \in Invocations : HandlerResume(i)

Spec == Init /\ [][Next]_vars

NextCall ==
  \/ \E r \in CallResponses : Middleware(r)
  \/ \E r \in CallResponses, m \in Actions, t \in Targets, o \in OptionsInputs :
        /\ \E i \in Calls : inv[i].pc = "idle"
        /\ Invoke(r, m, t, o)
  \/ \E i \in Calls, oc \in RenderOutcomes : RenderCallback(i, oc)
  \/ \E i \in Calls : StreamResume(i)
  \/ \E i \in Calls : HandlerResume(i)

SpecCall == Init /\ [][NextCall]_vars

(* ------------------------ observations of a run ----------------------- *)

Started(i) == inv[i].pc # "idle"

Settled(i) == inv[i].pc \in {"done", "rejected"}

Suspended(i) == inv[i].pc \in {"awaitRender", "streamJob", "handlerJob"}

SendsBy(i) == {p \in Responses \X Invocations : p[2] \in DOMAIN sent[p[1]] /\ sent[p[1]][p[2]].by = i}

BodiesBy(i) == {sent[p[1]][p[2]].body : p \in SendsBy(i)}

PartialGiven(i) == inv[i].options # << >> /\ inv[i].options[1].partial # << >>

NonEmptyPartialGiven(i) == PartialGiven(i) /\ inv[i].options[1].partial # <<"">>

RenderFailed(i) == inv[i].outcome # << >> /\ ~inv[i].outcome[1].ok

Pos(seq, e) == IF \E k \in DOMAIN seq : seq[k] = e
                 THEN CHOOSE k \in DOMAIN seq : seq[k] = e /\ \A j \in 1..(k - 1) : seq[j] # e
                 ELSE 0

InQueue(i) == \E k \in DOMAIN jobs : jobs[k] = i

EnvelopeText(a, t, html) ==
  "\n" \o "  <turbo-stream action=\"" \o a \o "\" target=\"" \o t \o "\">" \o "\n"
       \o "    <template>" \o "\n"
       \o html \o "\n"
       \o "    </template>" \o "\n"
       \o "  </turbo-stream>" \o "\n"
       \o "  "

HeaderLine == <<"text/html; turbo-stream; charset=utf-8">>

(* ------------------------------- claims ------------------------------- *)

(* C1: for every action method a and target t, a call without options     *)
(* that has completed has sent exactly one body, on its own response, and  *)
(* the body is the fixed envelope text with action a, target t and an      *)
(* empty content line, whitespace included; the Content-Type header of     *)
(* that response is the one value text/html; turbo-stream; charset=utf-8.  *)
C1_NoOptionsEnvelope ==
  \A i \in Invocations :
    (inv[i].pc = "done" /\ inv[i].options = << >>) =>
      /\ inv[i].method \in Actions
      /\ Cardinality(SendsBy(i)) = 1
      /\ \A p \in SendsBy(i) : p[1] = inv[i].via
      /\ BodiesBy(i) = {EnvelopeText(inv[i].method, inv[i].target, "")}
      /\ header[inv[i].via] = <<HeaderLine>>

C1_Witness ==
  \E i \in Invocations :
    inv[i].pc = "done" /\ inv[i].options = << >> /\ inv[i].method = "update"
      /\ inv[i].target = "a\"b"

(* C2 as stated: whenever options carries a partial p (and locals l), the  *)
(* renderer has been called exactly once, with p and l, and on completion  *)
(* the body sent holds the renderer's HTML verbatim inside the template.   *)
C2_Original ==
  \A i \in Invocations :
    (Started(i) /\ PartialGiven(i)) =>
      /\ inv[i].renderCalls =
           <<[on |-> inv[i].via, partial |-> inv[i].options[1].partial,
              locals |-> inv[i].options[1].locals]>>
      /\ inv[i].pc = "done" =>
           BodiesBy(i) = {EnvelopeText(inv[i].method, inv[i].target, inv[i].outcome[1].val)}

(* C2 amended: the same, for a partial that is not the empty string.       *)
C2_NonEmptyPartialRendered ==
  \A i \in Invocations :
    (Started(i) /\ NonEmptyPartialGiven(i)) =>
      /\ inv[i].renderCalls =
           <<[on |-> inv[i].via, partial |-> inv[i].options[1].partial,
              locals |-> inv[i].options[1].locals]>>
      /\ inv[i].pc = "done" =>
           /\ inv[i].outcome # << >> /\ inv[i].outcome[1].ok
           /\ BodiesBy(i) = {EnvelopeText(inv[i].method, inv[i].target, inv[i].outcome[1].val)}

C2_Witness ==
  \E i \in Invocations :
    /\ inv[i].pc = "done"
    /\ inv[i].options = <<[partial |-> <<"messages/show">>, locals |-> <<MessageLocals>>]>>
    /\ inv[i].outcome[1].val \in Htmls

(* C3: when the renderer reports an error e, the invocation never sends a  *)
(* body and never completes normally, and when it settles it is rejected   *)
(* with e itself; an invocation is rejected only by a renderer error.      *)
C3_RenderErrorPropagates ==
  \A i \in Invocations :
    /\ RenderFailed(i) =>
         /\ SendsBy(i) = {}
         /\ inv[i].pc # "done"
         /\ Settled(i) => inv[i].reason = <<inv[i].outcome[1].val>>
    /\ inv[i].pc = "rejected" => RenderFailed(i)

C3_Witness ==
  \E i \in Invocations :
    inv[i].pc = "rejected" /\ RenderFailed(i) /\ inv[i].reason = <<"Error: Failed to lookup view">>

C5_OmittedEqualsUndefinedPartial ==
  /\ \A i \in Invocations :
       (Started(i) /\ ~PartialGiven(i)) =>
         /\ inv[i].renderCalls = << >>
         /\ Pos(inv[i].events, "render") = 0
         /\ header[inv[i].via] = <<HeaderLine>>
         /\ inv[i].pc # "rejected"
         /\ inv[i].pc = "done" =>
              BodiesBy(i) = {EnvelopeText(inv[i].method, inv[i].target, "")}
  /\ \A i, j \in Invocations :
       ( /\ inv[i].pc = "done" /\ inv[j].pc = "done"
         /\ inv[i].options = << >>
         /\ inv[j].options # << >> /\ inv[j].options[1].partial = << >>
         /\ inv[i].method = inv[j].method /\ inv[i].target = inv[j].target )
       => BodiesBy(i) = BodiesBy(j)

C5_Witness ==
  \E i \in Invocations :
    /\ inv[i].pc = "done"
    /\ inv[i].options = <<[partial |-> << >>, locals |-> << >>]>>
    /\ inv[i].method = "prepend"

(* C6: on every response the middleware's steps are, for each of its runs, *)
(* attach and then next, in that order: as many attaches and as many nexts *)
(* as runs, every next directly after an attach, and the capability object *)
(* is on the response once a run has happened.                             *)
C6_AttachThenNextOnce ==
  \A r \in Responses :
    /\ Len(pipeline[r]) = 2 * installs[r]
    /\ \A k \in DOMAIN pipeline[r] :
         pipeline[r][k] = IF k % 2 = 1 THEN "attach" ELSE "next"
    /\ installs[r] > 0 <=> turboStream[r] # << >>

C6_Witness ==
  \E r \in Responses : installs[r] = 2 /\ pipeline[r] = <<"attach", "next", "attach", "next">>

(* C7: every invocation acts on the response through whose capability      *)
(* object it was made: its handler is bound to that response, its sends    *)
(* are on that response, a response through which no invocation was made   *)
(* has no header and no body; a response holds one capability object, the  *)
(* one attached by the last run of the middleware on it, bound to it.      *)
C7_ScopedToOneResponse ==
  /\ \A i \in Invocations :
       Started(i) =>
         /\ inv[i].res = inv[i].via
         /\ \A p \in SendsBy(i) : p[1] = inv[i].via
         /\ header[inv[i].via] = <<HeaderLine>>
         /\ inv[i].renderCalls # << >> => inv[i].renderCalls[1].on = inv[i].via
  /\ \A r \in Responses :
       /\ (\A i \in Invocations : inv[i].via # r) => header[r] = << >> /\ sent[r] = << >>
       /\ \A k \in DOMAIN sent[r] : inv[sent[r][k].by].via = r
       /\ turboStream[r] # << >> =>
            turboStream[r] = <<[res |-> r, gen |-> installs[r]]>>

C7_Witness ==
  \E i, j \in Invocations :
    /\ inv[i].via # inv[j].via
    /\ inv[i].pc = "handlerJob" /\ inv[i].outcome # << >>
    /\ inv[j].pc = "done"
    /\ installs[inv[j].via] = 2

C9_HeaderSetWhenBodyWritten ==
  [][ /\ \A r \in Responses :
           Len(sent'[r]) > Len(sent[r]) =>
             header[r] = <<HeaderLine>> /\ header'[r] = <<HeaderLine>>
      /\ \A i \in Invocations :
           (inv[i].pc # "done" /\ inv'[i].pc = "done") =>
             /\ Pos(inv[i].events, "setHeader") > 0
             /\ Len(sent'[inv[i].via]) > Len(sent[inv[i].via]) ]_vars

C9_Witness ==
  \E i \in Invocations :
    /\ inv[i].pc = "done" /\ ~PartialGiven(i)
    /\ Len(sent[inv[i].via]) = 1 /\ header[inv[i].via] = <<HeaderLine>>

====
